---------------------------- MODULE Spec2Model ----------------------------
(***************************************************************************)
(* A model of the flashcard session of src/app.py: the decks and cards     *)
(* tables, the SM-2 scheduler (sm2_update), the due-set selector           *)
(* (load_due_cards), the review queue (QuizQueue / CardCache) and the      *)
(* undo/redo engine (push_undo, do_undo, do_redo, apply_inverse).          *)
(*                                                                         *)
(* A session is one process in which the cmd_* handlers are called one     *)
(* after the other: the module-level globals start empty and live as long  *)
(* as the process, the tables live in the database file.  (main() itself   *)
(* serves one command per process.)  A handler that raises keeps every     *)
(* effect it had before the raise; the connection it leaves open holds no  *)
(* committed change (sqlite rolls it back).                                *)
(*                                                                         *)
(* Units.  Timestamps are whole seconds (isoformat(timespec="seconds")).   *)
(* easiness is kept in 1/10000 (it is rounded to 4 decimals), interval in  *)
(* 1/100 of a day (it is 0, 1, 6 or a value rounded to 2 decimals).        *)
(*                                                                         *)
(* Left out: DeckIndex, TopicGraph and the topics tables (no handler reads *)
(* them back into the state modelled here).                                *)
(*                                                                         *)
(* The Streamlit front-end of src/streamlit_app.py is a program of its own *)
(* with its own cards table and its own queue, cache and undo list in      *)
(* st.session_state; its state is the variable ui and its buttons are the  *)
(* Ui actions.                                                             *)
(***************************************************************************)
EXTENDS Integers, Sequences, FiniteSets, TLC

VARIABLES
    decks,      \* rows of table decks: [id, name, parent_id]
    cards,      \* rows of table cards
    UndoStack,  \* sequence of [op, data], top is the last element
    RedoStack,  \* sequence of [op, data], top is the last element
    QuizQueue,  \* deque of card ids, head is the first element
    CardCache,  \* set of Card objects (row copies) loaded by load_due_cards
    SessionHistory, \* sequence of [card_id, quality, answered_ts]
    now,        \* the UTC clock, in seconds
    last,       \* observer: the outcome of the last handler called
    obs,        \* observer: an operation and the undo/redo calls right after it
    ui          \* the Streamlit front-end: its cards table and session_state

vars == <<decks, cards, UndoStack, RedoStack, QuizQueue, CardCache,
         SessionHistory, now, last, obs, ui>>

-----------------------------------------------------------------------------
(* Bounds of the model *)

\* largest card id a session creates
MaxCards == 1
\* records UndoStack holds when the session stops issuing mutating commands
MaxStack == 1
\* answers recorded in SessionHistory when the session stops answering
MaxReviews == 1
\* seconds after StartTime up to which the clock is moved to a due time
MaxElapsed == 700000
\* seconds into a 1/100 day at which a handler may still see the clock advance
MaxDrift == 1
\* largest deck id given when the sessions stop adding decks
MaxDecks == 3
\* ratings the front-end's undo list holds when the user stops rating
MaxRatings == 2

(* Program constants *)

NULL == -1
NewEasiness == 25000
MinEasiness == 13000
FirstInterval == 100
SecondInterval == 600
CentiDay == 864
EasinessScale == 10000
StartTime == 10000 * CentiDay

(* Inputs: the arguments the sessions pass to the handlers *)

NoDeck == ""
NoArg == "<none>"
Qualities == -1 .. 6
ClockSkew == {0, 1}
EditArgs == {[front |-> "f1", back |-> "", tags |-> ""]}
NewDeckNames == {"A"}
DeleteDeckNames == {"A", "root"}
ParentNames == {"root"}
CardDeckNames == {"root"}
FilterNames == {NoDeck, "nosuch"}
Limits == {50}
SessionQualities == {3, 6}
SessionSkew == {0}

-----------------------------------------------------------------------------
(* Helpers *)

SetMax(S) == CHOOSE m \in S : \A y \in S : y <= m

Top(s) == s[Len(s)]

Pop(s) == SubSeq(s, 1, Len(s) - 1)

\* dict.update: the fields of m written over those of r
ApplyFields(r, m) == [k \in DOMAIN r |-> IF k \in DOMAIN m THEN m[k] ELSE r[k]]

NoData == [none |-> 0]

NoOp == [op |-> "none", data |-> NoData]

DeckIds(D) == {d.id : d \in D}

CardIds(C) == {c.id : c \in C}

CardById(C, cid) == CHOOSE c \in C : c.id = cid

\* sqlite rowid of an INTEGER PRIMARY KEY column: largest rowid + 1
NextId(ids) == IF ids = {} THEN 1 ELSE SetMax(ids) + 1

now_ts(t) == t

days_from_now(t, interval) == t + interval * CentiDay

get_deck_id_by_name(D, name) ==
    IF \E d \in D : d.name = name
    THEN (CHOOSE d \in D : d.name = name).id
    ELSE NULL

-----------------------------------------------------------------------------
(* Repositories / CRUD.  Each returns [outcome, <table>, op]: the outcome   *)
(* is "ok" or the exception raised, the table is as committed, op is the    *)
(* undo record returned.                                                    *)

add_deck(D, name, parent) ==
    LET parent_id == get_deck_id_by_name(D, parent) IN
    IF parent_id = NULL
    THEN [outcome |-> "DeckNotFound", decks |-> D, op |-> NoOp]
    ELSE IF \E d \in D : d.name = name   \* UNIQUE(name)
    THEN [outcome |-> "IntegrityError", decks |-> D, op |-> NoOp]
    ELSE [outcome |-> "ok",
          decks |-> D \cup {[id |-> NextId(DeckIds(D)), name |-> name,
                             parent_id |-> parent_id]},
          op |-> [op |-> "add_deck", data |-> [name |-> name]]]

\* Connections come from get_conn, which leaves foreign_keys off: the
\* DELETE removes the deck row and nothing else.
delete_deck(D, name) ==
    IF ~ \E d \in D : d.name = name
    THEN [outcome |-> "DeckNotFound", decks |-> D, op |-> NoOp]
    ELSE LET deck == CHOOSE d \in D : d.name = name IN
         [outcome |-> "ok",
          decks |-> {d \in D : d.id # deck.id},
          op |-> [op |-> "delete_deck", data |-> deck]]

\* ts is the clock read for created_ts/updated_ts, due the later read for due_ts
add_card(D, C, deck_name, front, back, tags, ts, due) ==
    LET deck_id == get_deck_id_by_name(D, deck_name) IN
    IF deck_id = NULL
    THEN [outcome |-> "DeckNotFound", cards |-> C, op |-> NoOp]
    ELSE LET card_id == NextId(CardIds(C)) IN
         [outcome |-> "ok",
          cards |-> C \cup {[id |-> card_id, deck_id |-> deck_id,
                             front |-> front, back |-> back, tags |-> tags,
                             easiness |-> NewEasiness, interval |-> 0,
                             repetitions |-> 0, due_ts |-> due,
                             last_review_ts |-> NULL, successes |-> 0,
                             failures |-> 0, created_ts |-> ts,
                             updated_ts |-> ts]},
          op |-> [op |-> "add_card", data |-> [card_id |-> card_id]]]

\* updates is a dict of column values; every key cmd_edit_card passes is a column
edit_card(C, card_id, updates, ts) ==
    IF card_id \notin CardIds(C)
    THEN [outcome |-> "CardNotFound", cards |-> C, op |-> NoOp]
    ELSE LET before == CardById(C, card_id)
             allowed == [k \in DOMAIN updates \cap DOMAIN before |-> updates[k]]
         IN
         IF DOMAIN allowed = {}
         THEN [outcome |-> "NoValidFields", cards |-> C, op |-> NoOp]
         ELSE LET set == [k \in DOMAIN allowed \cup {"updated_ts"} |->
                             IF k = "updated_ts" THEN ts ELSE allowed[k]]
                  after == [k \in DOMAIN set \cup {"id"} |->
                             IF k = "id" THEN card_id ELSE set[k]]
              IN
              [outcome |-> "ok",
               cards |-> (C \ {before}) \cup {ApplyFields(before, set)},
               op |-> [op |-> "edit_card",
                       data |-> [before |-> before, after |-> after]]]

delete_card(C, card_id) ==
    IF card_id \notin CardIds(C)
    THEN [outcome |-> "CardNotFound", cards |-> C, op |-> NoOp]
    ELSE LET backup == CardById(C, card_id) IN
         [outcome |-> "ok",
          cards |-> C \ {backup},
          op |-> [op |-> "delete_card", data |-> backup]]

-----------------------------------------------------------------------------
(* Spaced repetition (SM-2) *)

\* round(x, 2) of the float product interval * e.  n is the exact product in
\* 1/1000000: off a decimal tie the float error is far below half a unit and
\* the result is the nearest value; on a decimal tie the result depends on
\* the binary product and is either neighbour (up chooses).
round2(n, up) ==
    LET q == n \div EasinessScale
        r == n % EasinessScale
    IN IF 2 * r < EasinessScale THEN q
       ELSE IF 2 * r > EasinessScale THEN q + 1
       ELSE IF up THEN q + 1 ELSE q

\* whether round(interval * e, 2) is taken on a decimal tie
OnTie(card, quality) ==
    /\ quality >= 3
    /\ card.repetitions >= 2
    /\ 2 * ((card.interval * card.easiness) % EasinessScale) = EasinessScale

\* 0.1 - (5 - quality) * (0.08 + (5 - quality) * 0.02), in 1/10000
EFactorDelta(quality) == 1000 - (5 - quality) * (800 + (5 - quality) * 200)

\* a variant of NextEasiness that applies the E-Factor update to a failure too
NextEasinessOnFailure(card, quality) ==
    LET e1 == card.easiness + EFactorDelta(quality) IN
    IF e1 < MinEasiness THEN MinEasiness ELSE e1

\* a variant of NextEasiness without the floor
NextEasinessNoFloor(card, quality) ==
    IF quality < 3 THEN card.easiness
    ELSE card.easiness + EFactorDelta(quality)

\* a variant of NextEasiness that applies the floor before the update
NextEasinessFloorFirst(card, quality) ==
    LET e0 == IF card.easiness < MinEasiness THEN MinEasiness
              ELSE card.easiness
    IN IF quality < 3 THEN card.easiness ELSE e0 + EFactorDelta(quality)

\* the E-Factor update and its floor; a failure leaves e as it is
NextEasiness(card, quality) ==
    LET e1 == card.easiness + EFactorDelta(quality) IN
    IF quality < 3 THEN card.easiness
    ELSE IF e1 < MinEasiness THEN MinEasiness ELSE e1

\* a variant of NextInterval that multiplies by the updated easiness
NextIntervalLate(card, quality, up) ==
    IF quality < 3 THEN 0
    ELSE IF card.repetitions = 0 THEN FirstInterval
    ELSE IF card.repetitions = 1 THEN SecondInterval
    ELSE round2(card.interval * NextEasiness(card, quality), up)

\* variant: the second interval is given once more at repetitions 2
NextIntervalSecondTwice(card, quality, up) ==
    IF quality < 3 THEN 0
    ELSE IF card.repetitions = 0 THEN FirstInterval
    ELSE IF card.repetitions <= 2 THEN SecondInterval
    ELSE round2(card.interval * card.easiness, up)

\* the interval, from the repetitions and the easiness held before the update
NextInterval(card, quality, up) ==
    IF quality < 3 THEN 0
    ELSE IF card.repetitions = 0 THEN FirstInterval
    ELSE IF card.repetitions = 1 THEN SecondInterval
    ELSE round2(card.interval * card.easiness, up)

\* a variant of sm2_update in which a failure also resets successes
sm2_update_resets_successes(card, quality, up, tl, td, tu) ==
    LET failure == quality < 3
        interval == NextInterval(card, quality, up)
    IN [card EXCEPT
            !.failures = IF failure THEN @ + 1 ELSE @,
            !.successes = IF failure THEN 0 ELSE @ + 1,
            !.easiness = NextEasiness(card, quality),
            !.interval = interval,
            !.repetitions = IF failure THEN 0 ELSE @ + 1,
            !.last_review_ts = now_ts(tl),
            !.due_ts = days_from_now(td, interval),
            !.updated_ts = now_ts(tu)]

\* tl, td, tu: the three clock reads (last_review_ts, due_ts, updated_ts)
sm2_update(card, quality, up, tl, td, tu) ==
    LET failure == quality < 3
        interval == NextInterval(card, quality, up)
    IN [card EXCEPT
            !.failures = IF failure THEN @ + 1 ELSE @,
            !.successes = IF failure THEN @ ELSE @ + 1,
            !.easiness = NextEasiness(card, quality),
            !.interval = interval,
            !.repetitions = IF failure THEN 0 ELSE @ + 1,
            !.last_review_ts = now_ts(tl),
            !.due_ts = days_from_now(td, interval),
            !.updated_ts = now_ts(tu)]

-----------------------------------------------------------------------------
(* Loading helpers *)

IsDue(c, t) == c.due_ts = NULL \/ c.due_ts <= t

\* COALESCE(due_ts, '1970-01-01T00:00:00')
EffectiveDue(c) == IF c.due_ts = NULL THEN 0 ELSE c.due_ts

\* variant: the deck filter also takes the cards of the deck's subdecks
DueRowsOfSubtree(C, deck_id, t) ==
    {c \in C : /\ IsDue(c, t)
               /\ \/ deck_id = NULL
                  \/ c.deck_id = deck_id
                  \/ \E d \in decks : d.id = c.deck_id /\ d.parent_id = deck_id}

\* The rows of the SELECT: due, of the deck when one is given
DueRows(C, deck_id, t) ==
    {c \in C : IsDue(c, t) /\ (deck_id = NULL \/ c.deck_id = deck_id)}

\* The orders ORDER BY COALESCE(due_ts, ...) ASC allows: rows of equal due
\* time come in an order the query does not fix.
RECURSIVE DueOrders(_)
DueOrders(R) ==
    IF R = {} THEN {<<>>}
    ELSE LET first == {c \in R : \A x \in R : EffectiveDue(c) <= EffectiveDue(x)}
         IN UNION {{<<c>> \o s : s \in DueOrders(R \ {c})} : c \in first}

Limit(s, limit) == SubSeq(s, 1, IF Len(s) < limit THEN Len(s) ELSE limit)

-----------------------------------------------------------------------------
(* Undo/Redo engine *)

\* a variant of push_undo that keeps the redo history
push_undo_keep_redo(us, rs, op) == [undo |-> Append(us, op), redo |-> rs]

\* returns the two stacks after UndoStack.append(op); RedoStack.clear()
push_undo(us, rs, op) == [undo |-> Append(us, op), redo |-> <<>>]

CardCols ==
    {"id", "deck_id", "front", "back", "tags", "easiness", "interval",
     "repetitions", "due_ts", "last_review_ts", "successes", "failures",
     "created_ts", "updated_ts"}

\* NOT NULL columns of cards that have no DEFAULT
RequiredCols == {"deck_id", "front", "back", "created_ts", "updated_ts"}

\* the value an INSERT gives a column it does not name
ColumnDefault(C, k) ==
    CASE k = "id" -> NextId(CardIds(C))
      [] k = "tags" -> ""
      [] k = "easiness" -> NewEasiness
      [] k \in {"interval", "repetitions", "successes", "failures"} -> 0
      [] OTHER -> NULL

\* a variant of UpdateById that leaves updated_ts as it is
UpdateByIdKeepStamp(C, m) ==
    {IF c.id = m.id
     THEN [ApplyFields(c, m) EXCEPT !.updated_ts = c.updated_ts]
     ELSE c : c \in C}

\* UPDATE cards SET <every key of m but id> WHERE id = m["id"]
UpdateById(C, m) ==
    {IF c.id = m.id THEN ApplyFields(c, m) ELSE c : c \in C}

\* returns [outcome, decks, cards, inverse]: the tables are as committed when
\* the function returns or raises
apply_inverse(op, data, D, C) ==
    CASE op = "add_deck" ->
           [outcome |-> "ok", decks |-> {d \in D : d.name # data.name},
            cards |-> C, inverse |-> [op |-> "delete_deck", data |-> data]]
      [] op = "delete_deck" ->
           IF ~ ({"id", "name", "parent_id"} \subseteq DOMAIN data)
           THEN [outcome |-> "KeyError", decks |-> D, cards |-> C,
                 inverse |-> NoOp]
           ELSE IF data.id \in DeckIds(D) \/ \E d \in D : d.name = data.name
           THEN [outcome |-> "IntegrityError", decks |-> D, cards |-> C,
                 inverse |-> NoOp]
           ELSE [outcome |-> "ok",
                 decks |-> D \cup {[id |-> data.id, name |-> data.name,
                                    parent_id |-> data.parent_id]},
                 cards |-> C,
                 inverse |-> [op |-> "add_deck",
                              data |-> [name |-> data.name]]]
      [] op = "add_card" ->
           LET cid == data.card_id IN
           [outcome |-> "ok", decks |-> D, cards |-> {c \in C : c.id # cid},
            inverse |-> [op |-> "delete_card", data |-> [id |-> cid]]]
      [] op = "delete_card" ->
           IF \/ ~ (RequiredCols \subseteq DOMAIN data)
              \/ ("id" \in DOMAIN data /\ data.id \in CardIds(C))
           THEN [outcome |-> "IntegrityError", decks |-> D, cards |-> C,
                 inverse |-> NoOp]
           ELSE LET row == [k \in CardCols |->
                               IF k \in DOMAIN data THEN data[k]
                               ELSE ColumnDefault(C, k)]
                IN IF "id" \notin DOMAIN data
                   THEN [outcome |-> "KeyError", decks |-> D,
                         cards |-> C \cup {row}, inverse |-> NoOp]
                   ELSE [outcome |-> "ok", decks |-> D,
                         cards |-> C \cup {row},
                         inverse |-> [op |-> "add_card",
                                      data |-> [card_id |-> data.id]]]
      [] op = "edit_card" ->
           [outcome |-> "ok", decks |-> D,
            cards |-> UpdateById(C, data.before),
            inverse |-> [op |-> "edit_card",
                         data |-> [before |-> data.after,
                                   after |-> data.before]]]
      [] op = "answer_card" ->
           \* the UPDATE is committed before the return value reads data["after"]
           IF "after" \notin DOMAIN data
           THEN [outcome |-> "KeyError", decks |-> D,
                 cards |-> UpdateById(C, data.before), inverse |-> NoOp]
           ELSE [outcome |-> "ok", decks |-> D,
                 cards |-> UpdateById(C, data.before),
                 inverse |-> [op |-> "answer_card",
                              data |-> [before |-> data.after]]]
      [] OTHER ->
           [outcome |-> "ok", decks |-> D, cards |-> C,
            inverse |-> [op |-> op, data |-> data]]

\* returns [outcome, undo, redo, decks, cards]
do_undo(us, rs, D, C) ==
    IF us = <<>>
    THEN [outcome |-> "NothingToUndo", undo |-> us, redo |-> rs,
          decks |-> D, cards |-> C]
    ELSE LET r == apply_inverse(Top(us).op, Top(us).data, D, C) IN
         [outcome |-> r.outcome,
          undo |-> Pop(us),
          redo |-> IF r.outcome = "ok" THEN Append(rs, r.inverse) ELSE rs,
          decks |-> r.decks, cards |-> r.cards]

\* a variant of do_redo that tests the undo stack for emptiness
do_redo_tests_undo(us, rs, D, C) ==
    IF us = <<>>
    THEN [outcome |-> "NothingToRedo", undo |-> us, redo |-> rs,
          decks |-> D, cards |-> C]
    ELSE IF rs = <<>>
    THEN [outcome |-> "IndexError", undo |-> us, redo |-> rs,
          decks |-> D, cards |-> C]
    ELSE LET r == apply_inverse(Top(rs).op, Top(rs).data, D, C) IN
         [outcome |-> r.outcome,
          undo |-> IF r.outcome = "ok" THEN Append(us, r.inverse) ELSE us,
          redo |-> Pop(rs),
          decks |-> r.decks, cards |-> r.cards]

\* returns [outcome, undo, redo, decks, cards]
do_redo(us, rs, D, C) ==
    IF rs = <<>>
    THEN [outcome |-> "NothingToRedo", undo |-> us, redo |-> rs,
          decks |-> D, cards |-> C]
    ELSE LET r == apply_inverse(Top(rs).op, Top(rs).data, D, C) IN
         [outcome |-> r.outcome,
          undo |-> IF r.outcome = "ok" THEN Append(us, r.inverse) ELSE us,
          redo |-> Pop(rs),
          decks |-> r.decks, cards |-> r.cards]

-----------------------------------------------------------------------------
(* Observers.  last is the outcome of the handler that ran last ("ok" or    *)
(* the condition it reported).  obs follows one successful mutating         *)
(* operation and the undo / redo calls that come right after it: phase 1    *)
(* after the operation, 2 after the undo that follows it, 3 after the redo  *)
(* that follows that, 4 after one more undo; phase 5 after a redo that      *)
(* follows the operation itself.  pre and post are the tables before and    *)
(* after the operation, ok says that every call so far returned normally,   *)
(* had_redo that RedoStack held a record when the operation was called.     *)
(* Any other call resets obs.                                               *)

Tables(D, C) == [decks |-> D, cards |-> C]

ObsReset ==
    [phase |-> 0, kind |-> "none", ok |-> TRUE, had_redo |-> FALSE,
     pre |-> Tables({}, {}), post |-> Tables({}, {})]

ObsOp(r, D0, C0, D1, C1) ==
    IF r.outcome = "ok"
    THEN [phase |-> 1, kind |-> r.op.op, ok |-> TRUE,
          had_redo |-> RedoStack # <<>>,
          pre |-> Tables(D0, C0), post |-> Tables(D1, C1)]
    ELSE ObsReset

ObsUndo(o, outcome) ==
    IF o.phase \in {1, 3}
    THEN [o EXCEPT !.phase = @ + 1, !.ok = @ /\ outcome = "ok"]
    ELSE ObsReset

ObsRedo(o, outcome) ==
    IF o.phase = 2
    THEN [o EXCEPT !.phase = 3, !.ok = @ /\ outcome = "ok"]
    ELSE IF o.phase = 1
    THEN [o EXCEPT !.phase = 5]
    ELSE ObsReset

-----------------------------------------------------------------------------
(* CLI commands *)

\* the session issues mutating commands while the undo log has room
Room == Len(UndoStack) < MaxStack

\* the clock may advance by d during a handler
ClockMay(d) == (now + d) % CentiDay <= MaxDrift

\* a variant of Record that pushes whatever the outcome
RecordWhatever(r) ==
    LET st == push_undo(UndoStack, RedoStack, r.op) IN
    UndoStack' = st.undo /\ RedoStack' = st.redo

Record(r) ==
    LET st == push_undo(UndoStack, RedoStack, r.op) IN
    IF r.outcome = "ok"
    THEN UndoStack' = st.undo /\ RedoStack' = st.redo
    ELSE UNCHANGED <<UndoStack, RedoStack>>

cmd_add_deck(name, parent) ==
    /\ Room
    /\ LET r == add_deck(decks, name, parent) IN
        /\ decks' = r.decks
        /\ Record(r)
        /\ last' = r.outcome
        /\ obs' = ObsOp(r, decks, cards, r.decks, cards)
    /\ UNCHANGED <<cards, QuizQueue, CardCache, SessionHistory, now>>
    /\ UNCHANGED ui

cmd_delete_deck(name) ==
    /\ Room
    /\ LET r == delete_deck(decks, name) IN
        /\ decks' = r.decks
        /\ Record(r)
        /\ last' = r.outcome
        /\ obs' = ObsOp(r, decks, cards, r.decks, cards)
    /\ UNCHANGED <<cards, QuizQueue, CardCache, SessionHistory, now>>
    /\ UNCHANGED ui

\* d: the clock's advance between the two reads of add_card
cmd_add_card(deck, front, back, tags, d) ==
    /\ Room
    /\ NextId(CardIds(cards)) <= MaxCards
    /\ ClockMay(d)
    /\ LET r == add_card(decks, cards, deck, front, back, tags,
                         now_ts(now), now_ts(now + d))
       IN
        /\ r.outcome = "ok" \/ d = 0
        /\ cards' = r.cards
        /\ Record(r)
        /\ last' = r.outcome
        /\ obs' = ObsOp(r, decks, cards, decks, r.cards)
    /\ now' = now + d
    /\ UNCHANGED <<decks, QuizQueue, CardCache, SessionHistory>>
    /\ UNCHANGED ui

\* args: the parsed --front, --back, --tags ("" and None are both falsy
\* for front and back; tags is passed on unless it is None)
cmd_edit_card(id, args) ==
    /\ Room
    /\ LET keys == {k \in {"front", "back"} : args[k] # ""}
                   \cup {k \in {"tags"} : args[k] # NoArg}
           updates == [k \in keys |-> args[k]]
           r == edit_card(cards, id, updates, now_ts(now))
       IN
        /\ cards' = r.cards
        /\ Record(r)
        /\ last' = r.outcome
        /\ obs' = ObsOp(r, decks, cards, decks, r.cards)
    /\ UNCHANGED <<decks, QuizQueue, CardCache, SessionHistory, now>>
    /\ UNCHANGED ui

cmd_delete_card(id) ==
    /\ Room
    /\ LET r == delete_card(cards, id) IN
        /\ cards' = r.cards
        /\ Record(r)
        /\ last' = r.outcome
        /\ obs' = ObsOp(r, decks, cards, decks, r.cards)
    /\ UNCHANGED <<decks, QuizQueue, CardCache, SessionHistory, now>>
    /\ UNCHANGED ui

\* returns [outcome, queue, cache]: the queue and the cache are cleared
\* before the deck is looked up
load_due_cards(D, C, deck, limit, t, order) ==
    LET deck_id == IF deck = NoDeck THEN NULL ELSE get_deck_id_by_name(D, deck)
    IN IF deck # NoDeck /\ deck_id = NULL
       THEN [outcome |-> "DeckNotFound", queue |-> <<>>, cache |-> {}]
       ELSE LET rows == Limit(order, limit) IN
            [outcome |-> "ok",
             queue |-> [i \in DOMAIN rows |-> rows[i].id],
             cache |-> {rows[i] : i \in DOMAIN rows}]

\* the rows load_due_cards may fetch, in each order the query allows
FetchOrders(D, C, deck, t) ==
    DueOrders(DueRows(C, IF deck = NoDeck THEN NULL
                         ELSE get_deck_id_by_name(D, deck), t))

cmd_quiz(deck, limit) ==
    /\ \E order \in FetchOrders(decks, cards, deck, now_ts(now)) :
         LET r == load_due_cards(decks, cards, deck, limit, now_ts(now), order)
         IN /\ QuizQueue' = r.queue
            /\ CardCache' = r.cache
            /\ last' = r.outcome
    /\ obs' = ObsReset
    /\ UNCHANGED <<decks, cards, UndoStack, RedoStack, SessionHistory, now>>
    /\ UNCHANGED ui

\* a variant of popleft that takes from the right, as deque.pop() does
pop_right(q) == [item |-> q[Len(q)], rest |-> SubSeq(q, 1, Len(q) - 1)]

\* QuizQueue.popleft(): the item returned and the queue left
popleft(q) == [item |-> Head(q), rest |-> Tail(q)]

\* whether cmd_answer gets as far as running sm2_update without raising
Answers(q) ==
    /\ QuizQueue # <<>>
    /\ popleft(QuizQueue).item \in CardIds(cards)
    /\ q \in 0 .. 5

\* q: the quality; up: the rounding of a decimal tie; d1, d2: the clock's
\* advances between the three reads of sm2_update
cmd_answer(q, up, d1, d2) ==
    /\ Room
    /\ Len(SessionHistory) < MaxReviews
    /\ ClockMay(d1 + d2)
    /\ IF Answers(q)
       THEN LET before == CardById(cards, popleft(QuizQueue).item)
                c == sm2_update(before, q, up, now, now + d1, now + d1 + d2)
                row == [before EXCEPT
                            !.easiness = c.easiness, !.interval = c.interval,
                            !.repetitions = c.repetitions,
                            !.due_ts = c.due_ts,
                            !.last_review_ts = c.last_review_ts,
                            !.successes = c.successes,
                            !.failures = c.failures,
                            !.updated_ts = c.updated_ts]
                r == [outcome |-> "ok",
                      op |-> [op |-> "answer_card",
                              data |-> [before |-> before, after |-> c]]]
            IN /\ up => OnTie(before, q)
               /\ QuizQueue' = popleft(QuizQueue).rest
               /\ cards' = (cards \ {before}) \cup {row}
               /\ SessionHistory' =
                     Append(SessionHistory,
                            [card_id |-> c.id, quality |-> q,
                             answered_ts |-> now_ts(now + d1 + d2)])
               /\ Record(r)
               /\ last' = "ok"
               /\ obs' = ObsOp(r, decks, cards, decks, cards')
               /\ now' = now + d1 + d2
       ELSE /\ ~up /\ d1 = 0 /\ d2 = 0
            /\ IF QuizQueue = <<>>
               THEN /\ last' = "NoCardLoaded"
                    /\ UNCHANGED QuizQueue
               ELSE /\ QuizQueue' = popleft(QuizQueue).rest
                    /\ last' = IF popleft(QuizQueue).item \notin CardIds(cards)
                               THEN "CardMissing" ELSE "AssertionError"
            /\ obs' = ObsReset
            /\ UNCHANGED <<cards, UndoStack, RedoStack, SessionHistory, now>>
    /\ UNCHANGED <<decks, CardCache>>
    /\ UNCHANGED ui

\* a variant of cmd_undo that puts the card of an undone answer back at the
\* head of QuizQueue
cmd_undo_requeues ==
    LET r == do_undo(UndoStack, RedoStack, decks, cards) IN
    /\ UndoStack' = r.undo
    /\ RedoStack' = r.redo
    /\ decks' = r.decks
    /\ cards' = r.cards
    /\ last' = r.outcome
    /\ obs' = ObsUndo(obs, r.outcome)
    /\ QuizQueue' = IF UndoStack # <<>> /\ Top(UndoStack).op = "answer_card"
                    THEN <<Top(UndoStack).data.before.id>> \o QuizQueue
                    ELSE QuizQueue
    /\ UNCHANGED <<CardCache, SessionHistory, now>>
    /\ UNCHANGED ui

cmd_undo ==
    LET r == do_undo(UndoStack, RedoStack, decks, cards) IN
    /\ UndoStack' = r.undo
    /\ RedoStack' = r.redo
    /\ decks' = r.decks
    /\ cards' = r.cards
    /\ last' = r.outcome
    /\ obs' = ObsUndo(obs, r.outcome)
    /\ UNCHANGED <<QuizQueue, CardCache, SessionHistory, now>>
    /\ UNCHANGED ui

cmd_redo ==
    LET r == do_redo(UndoStack, RedoStack, decks, cards) IN
    /\ UndoStack' = r.undo
    /\ RedoStack' = r.redo
    /\ decks' = r.decks
    /\ cards' = r.cards
    /\ last' = r.outcome
    /\ obs' = ObsRedo(obs, r.outcome)
    /\ UNCHANGED <<QuizQueue, CardCache, SessionHistory, now>>
    /\ UNCHANGED ui

\* time passes between two commands, up to the next due time
Tick ==
    /\ \E c \in cards :
         /\ c.due_ts > now
         /\ c.due_ts <= StartTime + MaxElapsed
         /\ now' = c.due_ts
    /\ UNCHANGED <<decks, cards, UndoStack, RedoStack, QuizQueue, CardCache,
                   SessionHistory, last, obs>>
    /\ UNCHANGED ui

\* the process ends and the next one starts: the module's globals are
\* built anew, the database file stays
Restart ==
    /\ UndoStack' = <<>>
    /\ RedoStack' = <<>>
    /\ QuizQueue' = <<>>
    /\ CardCache' = {}
    /\ SessionHistory' = <<>>
    /\ last' = "ok"
    /\ obs' = ObsReset
    /\ UNCHANGED <<decks, cards, now>>
    /\ UNCHANGED ui

-----------------------------------------------------------------------------
(* The session.  The database file outlives the process and the module's   *)
(* globals do not: a session starts with empty stacks, queue and cache on   *)
(* the tables of init_db, or on those an earlier session left.              *)

RootDeck == [id |-> 1, name |-> "root", parent_id |-> NULL]

\* the card an earlier add_card(deck "root") left, not yet reviewed
OldCard ==
    [id |-> 1, deck_id |-> 1, front |-> "f0", back |-> "b0", tags |-> "",
     easiness |-> NewEasiness, interval |-> 0, repetitions |-> 0,
     due_ts |-> StartTime - CentiDay, last_review_ts |-> NULL,
     successes |-> 0, failures |-> 0,
     created_ts |-> StartTime - CentiDay, updated_ts |-> StartTime - CentiDay]

\* the front-end's state when it is not in use: no card, the session_state
\* of ensure_state
UiClosed == [cards |-> {}, queue |-> <<>>, cache |-> {}, undo |-> <<>>]

Fresh ==
    /\ UndoStack = <<>>
    /\ RedoStack = <<>>
    /\ QuizQueue = <<>>
    /\ CardCache = {}
    /\ SessionHistory = <<>>
    /\ now = StartTime
    /\ last = "ok"
    /\ obs = ObsReset
    /\ ui = UiClosed

Init ==
    /\ decks = {RootDeck}
    /\ cards \in {{}, {OldCard}}
    /\ Fresh

Next ==
    \/ \E name \in NewDeckNames, parent \in ParentNames :
         cmd_add_deck(name, parent)
    \/ \E name \in DeleteDeckNames : cmd_delete_deck(name)
    \/ \E deck \in CardDeckNames, d \in SessionSkew :
         cmd_add_card(deck, "f0", "b0", "", d)
    \/ \E id \in 1 .. MaxCards, args \in EditArgs : cmd_edit_card(id, args)
    \/ \E id \in 1 .. MaxCards : cmd_delete_card(id)
    \/ \E deck \in FilterNames, limit \in Limits : cmd_quiz(deck, limit)
    \/ \E q \in SessionQualities, up \in BOOLEAN,
          d1 \in SessionSkew, d2 \in SessionSkew :
         cmd_answer(q, up, d1, d2)
    \/ cmd_undo
    \/ cmd_redo

Spec == Init /\ [][Next]_vars

-----------------------------------------------------------------------------
(* The scheduler on its own: one stored card in a state that reviews of a   *)
(* new card lead to, loaded by quiz and answered with every quality, with   *)
(* the clock free to advance between the reads of sm2_update.               *)

\* <<easiness, interval, repetitions, successes, failures>> after the
\* reviews named (qualities in order, from a new card)
SchedStates ==
    { <<25000, 0, 0, 0, 0>>,        \* new
      <<26000, 100, 1, 1, 0>>,      \* 5
      <<27000, 600, 2, 2, 0>>,      \* 5 5
      <<28000, 1620, 3, 3, 0>>,     \* 5 5 5
      <<13800, 0, 0, 8, 1>>,        \* 3 3 3 3 3 3 3 3 0
      <<13800, 600, 2, 8, 1>>,      \* 3 3 3 3 3 3 0 3 3
      <<13000, 100, 1, 10, 1>>,     \* 3 3 3 3 3 3 3 3 3 0 3
      <<25000, 9375, 5, 5, 0>> }    \* 4 4 4 4 4 (93.75 * 2.5 is a decimal tie)

SchedCard(st) ==
    LET reviewed == st[4] + st[5] > 0
        created == StartTime - 9999 * CentiDay
        reviewed_ts == StartTime - st[2] * CentiDay
    IN [id |-> 1, deck_id |-> 1, front |-> "f0", back |-> "b0", tags |-> "",
        easiness |-> st[1], interval |-> st[2], repetitions |-> st[3],
        due_ts |-> StartTime,
        last_review_ts |-> IF reviewed THEN reviewed_ts ELSE NULL,
        successes |-> st[4], failures |-> st[5],
        created_ts |-> created,
        updated_ts |-> IF reviewed THEN reviewed_ts ELSE created]

InitSched ==
    /\ decks = {RootDeck}
    /\ \E st \in SchedStates : cards = {SchedCard(st)}
    /\ Fresh

NextSched ==
    \/ \E limit \in Limits : cmd_quiz(NoDeck, limit)
    \/ \E q \in Qualities, up \in BOOLEAN,
          d1 \in ClockSkew, d2 \in ClockSkew :
         cmd_answer(q, up, d1, d2)
    \/ Tick

SpecSched == InitSched /\ [][NextSched]_vars

-----------------------------------------------------------------------------
(* One card from new, over several sessions: each session loads the due     *)
(* set and answers once with a passing quality; the clock is moved to the   *)
(* next due time between the sessions.                                      *)

DrillQualities == {3, 4, 5}

InitDrill ==
    /\ decks = {RootDeck}
    /\ cards = {OldCard}
    /\ Fresh

NextDrill ==
    \/ \E limit \in Limits : cmd_quiz(NoDeck, limit)
    \/ \E q \in DrillQualities, up \in BOOLEAN, d \in SessionSkew :
         cmd_answer(q, up, d, d)
    \/ Tick
    \/ Restart

SpecDrill == InitDrill /\ [][NextDrill]_vars

-----------------------------------------------------------------------------
(* The selector and the queue: a root deck with a subdeck and cards that    *)
(* earlier sessions left, some due at the same second, one not yet due;     *)
(* the session loads with and without a deck filter and answers.            *)

SubDeck == [id |-> 2, name |-> "A", parent_id |-> 1]

\* card 1, of root: failed once, 1/100 day ago
FailedCard ==
    [OldCard EXCEPT !.failures = 1,
                    !.created_ts = StartTime - 300 * CentiDay,
                    !.last_review_ts = StartTime - CentiDay,
                    !.updated_ts = StartTime - CentiDay]

\* card 2, of A: recalled once with quality 4, due in 1/100 day
PassedCard ==
    [OldCard EXCEPT !.id = 2, !.deck_id = 2,
                    !.interval = FirstInterval, !.repetitions = 1,
                    !.successes = 1,
                    !.created_ts = StartTime - 200 * CentiDay,
                    !.last_review_ts = StartTime - 99 * CentiDay,
                    !.updated_ts = StartTime - 99 * CentiDay,
                    !.due_ts = StartTime + CentiDay]

\* card 3, of A: new, added 2/100 day ago
EarlyCard ==
    [OldCard EXCEPT !.id = 3, !.deck_id = 2,
                    !.created_ts = StartTime - 2 * CentiDay,
                    !.updated_ts = StartTime - 2 * CentiDay,
                    !.due_ts = StartTime - 2 * CentiDay]

\* card 4, of root: new, added at the second at which card 1 was answered
TiedCard == [OldCard EXCEPT !.id = 4]

QueueCards == {FailedCard, PassedCard, EarlyCard, TiedCard}
QueueFilters == {NoDeck, "root", "A", "nosuch"}
QueueLimits == {1, 2, 50}
QueueQualities == {4, 6}

InitQueue ==
    /\ decks = {RootDeck, SubDeck}
    /\ cards \in SUBSET QueueCards
    /\ Fresh

NextQueue ==
    \/ \E deck \in QueueFilters, limit \in QueueLimits : cmd_quiz(deck, limit)
    \/ \E q \in QueueQualities, up \in BOOLEAN, d \in SessionSkew :
         cmd_answer(q, up, d, d)
    \/ Tick

SpecQueue == InitQueue /\ [][NextQueue]_vars

-----------------------------------------------------------------------------
(* The deck tree over several sessions: decks A and B are added under root, *)
(* A or B, deleted, and the changes undone and redone.                      *)

TreeNames == {"A", "B"}
TreeParents == {"root", "A", "B"}
TreeDeletes == {"root", "A", "B"}

InitTree ==
    /\ decks \in {{RootDeck}, {RootDeck, SubDeck}}
    /\ cards = {}
    /\ Fresh

NextTree ==
    \/ /\ NextId(DeckIds(decks)) <= MaxDecks
       /\ \E name \in TreeNames, parent \in TreeParents :
            cmd_add_deck(name, parent)
    \/ \E name \in TreeDeletes : cmd_delete_deck(name)
    \/ cmd_undo
    \/ cmd_redo
    \/ Restart

SpecTree == InitTree /\ [][NextTree]_vars

-----------------------------------------------------------------------------
(* The card commands on a card that is near the easiness floor: it is       *)
(* loaded, answered with a failing or a barely passing quality, edited,     *)
(* deleted, added again, and the changes undone and redone.                 *)

\* reviewed 3 3 3 3 3 3 0 3 3
WornCard == SchedCard(<<13800, 600, 2, 8, 1>>)

CardQualities == {0, 3, 5}

InitCards ==
    /\ decks = {RootDeck}
    /\ cards \in {{}, {WornCard}}
    /\ Fresh

\* a card is added when none is stored
NextCards ==
    \/ /\ cards = {}
       /\ \E deck \in CardDeckNames, d \in SessionSkew :
            cmd_add_card(deck, "f0", "b0", "", d)
    \/ \E id \in 1 .. MaxCards, args \in EditArgs : cmd_edit_card(id, args)
    \/ \E id \in 1 .. MaxCards : cmd_delete_card(id)
    \/ \E limit \in Limits : cmd_quiz(NoDeck, limit)
    \/ \E q \in CardQualities, up \in BOOLEAN, d \in SessionSkew :
         cmd_answer(q, up, d, d)
    \/ cmd_undo
    \/ cmd_redo

SpecCards == InitCards /\ [][NextCards]_vars

-----------------------------------------------------------------------------
(* The mutating commands with arguments that name a missing deck or card,   *)
(* or no field to edit, next to arguments that succeed, and undo and redo.  *)

FailParents == {"root", "nosuch"}
FailDeletes == {"A", "root", "nosuch"}
FailCardDecks == {"root", "nosuch"}
FailEditArgs == {[front |-> "f1", back |-> "", tags |-> NoArg],
                 [front |-> "", back |-> "b1", tags |-> "t1"],
                 [front |-> "", back |-> "", tags |-> NoArg]}

\* one of the five mutating commands is called
Mutates ==
    \/ \E name \in NewDeckNames, parent \in FailParents :
         cmd_add_deck(name, parent)
    \/ \E name \in FailDeletes : cmd_delete_deck(name)
    \/ \E deck \in FailCardDecks, d \in SessionSkew :
         cmd_add_card(deck, "f0", "b0", "", d)
    \/ \E id \in 1 .. MaxCards, args \in FailEditArgs : cmd_edit_card(id, args)
    \/ \E id \in 1 .. MaxCards : cmd_delete_card(id)

NextFail ==
    \/ Mutates
    \/ cmd_undo
    \/ cmd_redo

SpecFail == Init /\ [][NextFail]_vars

-----------------------------------------------------------------------------
(* The Streamlit front-end.  ui.cards are the rows [id, deck, difficulty]   *)
(* of its cards table; a deck is a path, kept as the sequence of its parts. *)
(* ui.queue, ui.cache and ui.undo are st.session_state.queue, .cache and    *)
(* .undo; the cache is kept as the set of its values, each with its key as  *)
(* id.  Every button handler ends in st.rerun(), which runs the script      *)
(* again and with it the lookup of the card at the head of the queue.       *)
(* Left out: the sidebar (adding a card, moving a deck, the database reset) *)
(* and the front and back texts of a card.                                  *)

AllDecks == <<"(all)">>
Ratings == {2, 5}

\* deck = ? OR deck LIKE ? with (deck, deck + "/%")
UnderDeck(deck, chosen) ==
    /\ Len(chosen) <= Len(deck)
    /\ SubSeq(deck, 1, Len(chosen)) = chosen

\* the rows of fetch_cards_for_study and get_cards_preview
RowsOfDeck(C, chosen) ==
    IF chosen = AllDecks THEN C ELSE {c \in C : UnderDeck(c.deck, chosen)}

\* ORDER BY id
ById(R) ==
    CHOOSE s \in [1 .. Cardinality(R) -> R] :
        \A i, j \in DOMAIN s : i < j => s[i].id < s[j].id

\* the choices of the deck selectbox: "(all)" and get_decks()
DeckChoices(C) == {AllDecks} \cup {c.deck : c \in C}

\* UPDATE cards SET difficulty = ? WHERE id = ?
set_difficulty(C, card_id, difficulty) ==
    {IF c.id = card_id THEN [c EXCEPT !.difficulty = difficulty] ELSE c : c \in C}

\* the script's lookup of the head of the queue: a card that the cache does
\* not hold is read from the table, or stands as an empty card, and cached
Rerun(u) ==
    IF u.queue = <<>> \/ \E r \in u.cache : r.id = Head(u.queue)
    THEN u
    ELSE LET cid == Head(u.queue)
             card == IF \E c \in u.cards : c.id = cid
                     THEN CHOOSE c \in u.cards : c.id = cid
                     ELSE [id |-> cid, deck |-> <<>>, difficulty |-> NULL]
         IN [u EXCEPT !.cache = @ \cup {card}]

CliIdle ==
    UNCHANGED <<decks, cards, UndoStack, RedoStack, QuizQueue, CardCache,
                SessionHistory, now, last, obs>>

\* button "Start Studying"
UiStartStudying(chosen) ==
    /\ chosen \in DeckChoices(ui.cards)
    /\ LET rows == ById(RowsOfDeck(ui.cards, chosen)) IN
       ui' = Rerun([ui EXCEPT !.queue = [i \in DOMAIN rows |-> rows[i].id],
                              !.cache = {rows[i] : i \in DOMAIN rows}])
    /\ CliIdle

\* button "Reset Session"
UiResetSession ==
    /\ ui' = Rerun([ui EXCEPT !.queue = <<>>])
    /\ CliIdle

\* button "Delete selected cards", on the ids chosen from the preview
UiDeleteSelected(chosen, del_ids) ==
    /\ chosen \in DeckChoices(ui.cards)
    /\ del_ids # {}
    /\ del_ids \subseteq {c.id : c \in RowsOfDeck(ui.cards, chosen)}
    /\ ui' = Rerun([ui EXCEPT
                        !.cards = {c \in @ : c.id \notin del_ids},
                        !.queue = SelectSeq(@, LAMBDA cid : cid \notin del_ids),
                        !.cache = {r \in @ : r.id \notin del_ids}])
    /\ CliIdle

\* rating button q, shown while the queue is not empty
UiRate(q) ==
    /\ ui.queue # <<>>
    /\ Len(ui.undo) < MaxRatings
    /\ LET current_id == Head(ui.queue)
           prev == IF \E c \in ui.cards : c.id = current_id
                   THEN (CHOOSE c \in ui.cards : c.id = current_id).difficulty
                   ELSE NULL
       IN ui' = Rerun([ui EXCEPT
                          !.undo = Append(@, [id |-> current_id, prev |-> prev]),
                          !.cards = set_difficulty(@, current_id, q),
                          !.queue = Tail(@)])
    /\ CliIdle

\* button "Undo last rating", shown while the queue is not empty
UiUndoLastRating ==
    /\ ui.queue # <<>>
    /\ IF ui.undo # <<>>
       THEN LET entry == Top(ui.undo) IN
            ui' = Rerun([ui EXCEPT
                            !.undo = Pop(@),
                            !.cards = set_difficulty(@, entry.id, entry.prev),
                            !.queue = <<entry.id>> \o @])
       ELSE ui' = Rerun(ui)
    /\ CliIdle

\* the cards earlier use of the front-end left, not yet rated
UiCards ==
    {[id |-> 1, deck |-> <<"M">>, difficulty |-> NULL],
     [id |-> 2, deck |-> <<"M", "A">>, difficulty |-> NULL],
     [id |-> 3, deck |-> <<"N">>, difficulty |-> NULL]}

InitUi ==
    /\ decks = {RootDeck}
    /\ cards = {}
    /\ UndoStack = <<>>
    /\ RedoStack = <<>>
    /\ QuizQueue = <<>>
    /\ CardCache = {}
    /\ SessionHistory = <<>>
    /\ now = StartTime
    /\ last = "ok"
    /\ obs = ObsReset
    /\ \E C \in SUBSET UiCards : ui = [UiClosed EXCEPT !.cards = C]

NextUi ==
    \/ \E chosen \in DeckChoices(UiCards) : UiStartStudying(chosen)
    \/ UiResetSession
    \/ \E chosen \in DeckChoices(UiCards), del_ids \in SUBSET (1 .. 3) :
         UiDeleteSelected(chosen, del_ids)
    \/ \E q \in Ratings : UiRate(q)
    \/ UiUndoLastRating

SpecUi == InitUi /\ [][NextUi]_vars

-----------------------------------------------------------------------------
(* Properties of the undo/redo engine (under Spec) *)

\* C1: a step that records a new mutating operation appends its record to
\* UndoStack and leaves RedoStack empty; a redo called right after such an
\* operation reports nothing-to-redo and changes nothing.
C1_RecordClearsRedo ==
    [][ /\ (obs'.phase = 1 /\ obs' # obs) =>
              /\ RedoStack' = <<>>
              /\ UndoStack' # <<>>
              /\ UndoStack' = Append(UndoStack, Top(UndoStack'))
              /\ Top(UndoStack').op = obs'.kind
        /\ (obs.phase = 1 /\ cmd_redo) =>
              /\ last' = "NothingToRedo"
              /\ UNCHANGED <<decks, cards, UndoStack, RedoStack, QuizQueue,
                             CardCache>>
      ]_vars

\* an operation recorded while RedoStack held a record, then a redo that
\* found nothing to redo
C1_Witness ==
    /\ obs.phase = 5
    /\ obs.had_redo
    /\ last = "NothingToRedo"
    /\ UndoStack # <<>>

\* C2: right after the undo that follows a recorded operation, the decks and
\* cards tables equal the tables before the operation, field for field; a
\* card that was deleted is stored again as it was and, when due, is loaded
\* by load_due_cards.
C2_UndoRestores ==
    obs.phase = 2 =>
        /\ last = "ok"
        /\ Tables(decks, cards) = obs.pre
        /\ obs.kind = "delete_card" =>
              \A c \in obs.pre.cards \ obs.post.cards :
                  /\ c \in cards
                  /\ IsDue(c, now) =>
                        \A limit \in Limits,
                           order \in FetchOrders(decks, cards, NoDeck, now) :
                            LET r == load_due_cards(decks, cards, NoDeck,
                                                    limit, now, order)
                            IN /\ \E i \in DOMAIN r.queue : r.queue[i] = c.id
                               /\ c \in r.cache

\* a card was deleted, the deletion undone, and the card is due
C2_Witness ==
    /\ obs.phase = 2
    /\ obs.kind = "delete_card"
    /\ \E c \in cards : c \notin obs.post.cards /\ IsDue(c, now)

\* C3: right after operation, undo, redo, both calls have returned normally
\* and the tables equal the tables right after the operation.
C3_RedoRestores ==
    obs.phase = 3 => obs.ok /\ Tables(decks, cards) = obs.post

\* C4: an undo on an empty UndoStack reports nothing-to-undo, a redo on an
\* empty RedoStack nothing-to-redo, and neither changes the stacks, the
\* queue, the cache or the tables.
C4_EmptyStackNoChange ==
    [][ /\ (UndoStack = <<>> /\ cmd_undo) =>
              /\ last' = "NothingToUndo"
              /\ UNCHANGED <<decks, cards, UndoStack, RedoStack, QuizQueue,
                             CardCache>>
        /\ (RedoStack = <<>> /\ cmd_redo) =>
              /\ last' = "NothingToRedo"
              /\ UNCHANGED <<decks, cards, UndoStack, RedoStack, QuizQueue,
                             CardCache>>
      ]_vars

\* an undo found nothing to undo while there was something to redo
C4_Witness ==
    /\ last = "NothingToUndo"
    /\ UndoStack = <<>>
    /\ RedoStack # <<>>

\* C5: an answer that fails on the quality or on a card that is no longer
\* stored leaves the queue, the stacks and the tables as they were.
C5_FailedAnswerNoChange ==
    [][ (/\ \E q \in Qualities : cmd_answer(q, FALSE, 0, 0)
         /\ last' \in {"AssertionError", "CardMissing"}) =>
            UNCHANGED <<QuizQueue, UndoStack, RedoStack, decks, cards>>
      ]_vars

\* C6: a quiz on a deck name that does not exist leaves QuizQueue and
\* CardCache as they were.
C6_FailedLoadNoChange ==
    [][ (/\ \E deck \in FilterNames, limit \in Limits : cmd_quiz(deck, limit)
         /\ last' = "DeckNotFound") =>
            UNCHANGED <<QuizQueue, CardCache>>
      ]_vars

\* C7: an undo or redo whose inverse raises leaves the stacks and the tables
\* as they were.
C7_FailedInverseNoChange ==
    [][ (/\ cmd_undo \/ cmd_redo
         /\ last' \in {"KeyError", "IntegrityError"}) =>
            UNCHANGED <<UndoStack, RedoStack, decks, cards>>
      ]_vars

-----------------------------------------------------------------------------
(* Properties of the scheduler (under SpecSched).  After a successful       *)
(* answer, obs.pre holds the card as stored before and cards as stored      *)
(* after; the quality is that of the last entry of SessionHistory.          *)

\* a successful answer was the last command
Answered == obs.phase = 1 /\ obs.kind = "answer_card" /\ SessionHistory # <<>>

\* C8: after an answer of quality 0..2 the stored card has repetitions 0,
\* interval 0, one more failure, the same successes and the same easiness.
C8_FailureResets ==
    (Answered /\ Top(SessionHistory).quality \in 0 .. 2) =>
        \A b \in obs.pre.cards \ cards :
            LET a == CardById(cards, b.id) IN
            /\ a.repetitions = 0
            /\ a.interval = 0
            /\ a.failures = b.failures + 1
            /\ a.successes = b.successes
            /\ a.easiness = b.easiness

\* a failed recall of a card that had repetitions and an interval
C8_Witness ==
    /\ Answered /\ Top(SessionHistory).quality = 2
    /\ \E b \in obs.pre.cards \ cards :
          b.repetitions >= 2 /\ b.interval > 0 /\ b.easiness # NewEasiness

\* C9: after an answer of quality 3..5 the stored interval is 1 day from
\* repetitions 0, 6 days from repetitions 1, and otherwise a 2-decimal value
\* nearest to interval * easiness with the easiness held before; repetitions
\* and successes are one more, failures the same.
C9_SuccessInterval ==
    (Answered /\ Top(SessionHistory).quality \in 3 .. 5) =>
        \A b \in obs.pre.cards \ cards :
            LET a == CardById(cards, b.id)
                exact == b.interval * b.easiness
                got == a.interval * EasinessScale
            IN /\ b.repetitions = 0 => a.interval = 100
               /\ b.repetitions = 1 => a.interval = 600
               /\ b.repetitions >= 2 =>
                     /\ 2 * (got - exact) <= EasinessScale
                     /\ 2 * (exact - got) <= EasinessScale
               /\ a.repetitions = b.repetitions + 1
               /\ a.successes = b.successes + 1
               /\ a.failures = b.failures

\* a successful recall from repetitions >= 2 that also changed the easiness
C9_Witness ==
    /\ Answered /\ Top(SessionHistory).quality \in 3 .. 5
    /\ \E b \in obs.pre.cards \ cards :
          /\ b.repetitions >= 2
          /\ CardById(cards, b.id).easiness # b.easiness
          /\ CardById(cards, b.id).interval > 600

\* C10: the easiness of a stored card is never below 1.3.
C10_EasinessFloor == \A c \in cards : 10 * c.easiness >= 13 * EasinessScale

\* a recall of quality 3 whose E-Factor update would have gone below 1.3
C10_Witness ==
    /\ Answered /\ Top(SessionHistory).quality = 3
    /\ \E b \in obs.pre.cards \ cards :
          /\ 10 * (b.easiness + EFactorDelta(3)) < 13 * EasinessScale
          /\ 10 * CardById(cards, b.id).easiness = 13 * EasinessScale

\* C12: after an answer the stored due time is the stored last-review time
\* plus exactly the stored interval (in days), for a failed answer the
\* last-review time itself.
C12_DueIsReviewPlusInterval ==
    Answered =>
        \A b \in obs.pre.cards \ cards :
            LET a == CardById(cards, b.id) IN
            a.due_ts = a.last_review_ts + a.interval * CentiDay

-----------------------------------------------------------------------------
(* The scenario of a new card answered with quality 5 every time (under     *)
(* SpecDrill, where only answers change the card).                          *)

\* the card was new and has been answered n times, each time with quality 5:
\* only quality 5 raises the easiness, by 0.1
Fives(c, n) ==
    /\ c.successes = n /\ c.failures = 0 /\ c.repetitions = n
    /\ c.easiness = NewEasiness + n * 1000

\* C11 as stated: a new card answered three times in a row with quality 5
\* has interval 1 after the first answer, 6 after the second and 15.6 after
\* the third.
C11_ThirdIntervalStated ==
    \A c \in cards :
        /\ Fives(c, 1) => c.interval = 100
        /\ Fives(c, 2) => c.interval = 600
        /\ Fives(c, 3) => c.interval = 1560

\* C11: a new card answered three times in a row with quality 5 has interval
\* 1 after the first answer, 6 after the second and 16.2 after the third:
\* the easiness is 2.6 after the first answer and 2.7 after the second, and
\* the third interval is round(6 * 2.7, 2).
C11_ThirdInterval ==
    \A c \in cards :
        /\ Fives(c, 1) => c.interval = 100
        /\ Fives(c, 2) => c.interval = 600 /\ c.easiness = 27000
        /\ Fives(c, 3) => c.interval = 1620

\* the third answer with quality 5 has been stored
C11_Witness == \E c \in cards : Fives(c, 3) /\ Answered

-----------------------------------------------------------------------------
(* Properties of the selector and the queue (under SpecQueue).  CardCache   *)
(* holds the rows as the last load fetched them, whatever was answered      *)
(* since.                                                                   *)

\* the row the last load fetched for a queued id
Loaded(cid) == CardById(CardCache, cid)

C14_LoadExact ==
    [][ \A deck \in QueueFilters, limit \in QueueLimits :
          (cmd_quiz(deck, limit) /\ last' = "ok") =>
            LET due == {c \in cards :
                           /\ c.due_ts = NULL \/ c.due_ts <= now
                           /\ deck # NoDeck =>
                                 \E d \in decks : d.name = deck /\ d.id = c.deck_id}
                n == IF Cardinality(due) < limit THEN Cardinality(due) ELSE limit
                Q == QuizQueue'
                row(i) == CardById(cards, Q[i])
            IN /\ Len(Q) = n
               /\ \A i \in DOMAIN Q : Q[i] \in CardIds(due)
               /\ \A i, j \in DOMAIN Q :
                     i < j => /\ Q[i] # Q[j]
                              /\ EffectiveDue(row(i)) <= EffectiveDue(row(j))
               /\ \A c \in due, i \in DOMAIN Q :
                     (\A j \in DOMAIN Q : Q[j] # c.id) =>
                         EffectiveDue(row(i)) <= EffectiveDue(c)
               /\ CardCache' = {c \in cards : \E i \in DOMAIN Q : Q[i] = c.id}
      ]_vars

\* a load took one card out of three or more that are due, and nothing
\* has been answered since
C14_Witness ==
    /\ last = "ok" /\ SessionHistory = <<>>
    /\ Len(QuizQueue) = 1
    /\ CardCache = {CardById(cards, QuizQueue[1])}
    /\ Cardinality({c \in cards : IsDue(c, now)}) >= 3
    /\ \E c \in cards : ~IsDue(c, now)

\* C15: right after a load that succeeds, UndoStack and RedoStack are
\* empty.
C15_ReloadResetsLog ==
    [][ (/\ \E deck \in QueueFilters, limit \in QueueLimits :
              cmd_quiz(deck, limit)
         /\ last' = "ok") =>
            UndoStack' = <<>> /\ RedoStack' = <<>>
      ]_vars

-----------------------------------------------------------------------------
(* Properties of the tables *)

\* C16: right after a delete_deck that succeeded no stored card is owned by
\* the deleted deck (under Spec).
C16_DeleteDeckCascades ==
    (obs.phase = 1 /\ obs.kind = "delete_deck") =>
        \A d \in obs.pre.decks \ decks :
            \A c \in cards : c.deck_id # d.id

\* C17: every stored deck other than root has a parent_id that is the id of
\* a stored deck (under SpecTree).
C17_ParentExists ==
    \A d \in decks :
        d.name # "root" => \E p \in decks : p.id = d.parent_id

\* C18: every stored card has easiness >= 1.3, interval >= 0 and
\* repetitions >= 0 (under SpecCards).
C18_CardFieldsValid ==
    \A c \in cards :
        /\ 10 * c.easiness >= 13 * EasinessScale
        /\ c.interval >= 0
        /\ c.repetitions >= 0

\* an answer that brought the card to the floor was undone and redone
C18_Witness ==
    /\ obs.phase = 3 /\ obs.kind = "answer_card"
    /\ \E c \in cards : c.easiness = MinEasiness /\ c.repetitions = 3

\* neither counter of a card stored before and after the step goes down
CountersKept ==
    \A b \in cards, a \in cards' :
        a.id = b.id => a.successes >= b.successes /\ a.failures >= b.failures

\* C19 as stated: no step of the session lowers the successes or the
\* failures of a card that stays stored.
C19_CountersNeverDecrease == [][CountersKept]_vars

\* C19: no step other than an undo lowers the successes or the failures of
\* a card that stays stored; the undo of an answer puts both back to what
\* they were before the answer (under SpecCards).
C19_CountersKeptButByUndo ==
    [][ /\ ~cmd_undo => CountersKept
        /\ (/\ cmd_undo
            /\ UndoStack # <<>>
            /\ Top(UndoStack).op = "answer_card") =>
              LET before == Top(UndoStack).data.before IN
              \A a \in cards' :
                  a.id = before.id =>
                      /\ a.successes = before.successes
                      /\ a.failures = before.failures
      ]_vars

\* an answer was undone, which lowered a counter, and redone, which raised
\* it again
C19_Witness ==
    /\ obs.phase = 3 /\ obs.kind = "answer_card"
    /\ \E b \in obs.pre.cards, c \in cards :
          /\ c.id = b.id
          /\ c.successes + c.failures = b.successes + b.failures + 1

\* C20: an answer that succeeds is given to the card at the head of
\* QuizQueue and removes the head and nothing else, so that the rest stays
\* in the order it was loaded in; a quiz that succeeds leaves every id it
\* loaded in the queue, the head it shows included (under SpecQueue).
C20_QueueFifo ==
    [][ /\ (/\ \E q \in QueueQualities, up \in BOOLEAN, d \in SessionSkew :
                 cmd_answer(q, up, d, d)
            /\ last' = "ok") =>
              /\ QuizQueue # <<>>
              /\ QuizQueue' = Tail(QuizQueue)
              /\ Top(SessionHistory').card_id = Head(QuizQueue)
              /\ \A c \in cards \ cards' : c.id = Head(QuizQueue)
        /\ (/\ \E deck \in QueueFilters, limit \in QueueLimits :
                 cmd_quiz(deck, limit)
            /\ last' = "ok") =>
              /\ Len(QuizQueue') = Cardinality(CardCache')
              /\ \A c \in CardCache' :
                    \E i \in DOMAIN QuizQueue' : QuizQueue'[i] = c.id
      ]_vars

\* three cards were loaded and the first of them answered: the other two
\* are left, in their order
C20_Witness ==
    /\ Answered
    /\ Len(QuizQueue) = 2
    /\ Cardinality(CardCache) = 3
    /\ \A i \in DOMAIN QuizQueue : QuizQueue[i] # Top(SessionHistory).card_id
    /\ EffectiveDue(Loaded(Top(SessionHistory).card_id))
          < EffectiveDue(Loaded(QuizQueue[1]))

-----------------------------------------------------------------------------
(* Further properties of the undo/redo engine (under Spec) *)

\* C21: right after operation, undo, redo, undo, all four calls have
\* returned normally and the tables equal the tables before the operation.
C21_RedoneIsUndoable ==
    obs.phase = 4 => obs.ok /\ Tables(decks, cards) = obs.pre

\* C22: right after the undo of an add_deck the deck is no longer stored
\* and the top of RedoStack is a delete_deck record whose data is the full
\* row (id, name, parent_id) of the deck removed.
C22_UndoAddDeckRecord ==
    (obs.phase = 2 /\ obs.kind = "add_deck") =>
        /\ decks = obs.pre.decks
        /\ RedoStack # <<>>
        /\ Top(RedoStack).op = "delete_deck"
        /\ DOMAIN Top(RedoStack).data = {"id", "name", "parent_id"}
        /\ Top(RedoStack).data \in obs.post.decks \ decks

\* C24: no call of do_undo or do_redo changes the number of records that
\* UndoStack and RedoStack hold together.
C24_RecordsConserved ==
    [][ (cmd_undo \/ cmd_redo) =>
            Len(UndoStack') + Len(RedoStack') = Len(UndoStack) + Len(RedoStack)
      ]_vars

\* C23: a mutating command that fails on a missing deck, a missing card or
\* on having no field to edit leaves the tables, UndoStack and RedoStack as
\* they were (under SpecFail).
C23_FailedCommandNoChange ==
    [][ (/\ Mutates
         /\ last' \in {"DeckNotFound", "CardNotFound", "NoValidFields"}) =>
            UNCHANGED <<decks, cards, UndoStack, RedoStack>>
      ]_vars

\* an edit without a field to edit failed on a stored card while RedoStack
\* held a record
C23_Witness ==
    /\ last = "NoValidFields"
    /\ RedoStack # <<>>
    /\ cards # {}

\* C25: the undo or the redo of an answer_card leaves QuizQueue, CardCache,
\* the decks and every other card as they were; it changes the stacks and
\* the row of the answered card only (under SpecCards).
C25_UndoAnswerFrame ==
    [][ /\ (/\ cmd_undo
            /\ UndoStack # <<>>
            /\ Top(UndoStack).op = "answer_card") =>
              /\ UNCHANGED <<QuizQueue, CardCache, decks, SessionHistory>>
              /\ CardIds(cards') = CardIds(cards)
              /\ \A c \in cards \ cards' :
                    c.id = Top(UndoStack).data.before.id
        /\ (/\ cmd_redo
            /\ RedoStack # <<>>
            /\ Top(RedoStack).op = "answer_card") =>
              /\ UNCHANGED <<QuizQueue, CardCache, decks, SessionHistory>>
              /\ CardIds(cards') = CardIds(cards)
              /\ \A c \in cards \ cards' :
                    c.id = Top(RedoStack).data.before.id
      ]_vars

\* an answer was undone: the card is due again and is not in QuizQueue
C25_Witness ==
    /\ obs.phase = 2 /\ obs.kind = "answer_card" /\ last = "ok"
    /\ \E c \in cards :
          /\ IsDue(c, now)
          /\ c \in obs.pre.cards /\ c \notin obs.post.cards
          /\ \A i \in DOMAIN QuizQueue : QuizQueue[i] # c.id

-----------------------------------------------------------------------------
(* Properties of the Streamlit front-end (under SpecUi) *)

\* C26: the front-end's study queue never holds the same card id twice.
C26_QueueNoDuplicates ==
    \A i, j \in DOMAIN ui.queue : i # j => ui.queue[i] # ui.queue[j]

=============================================================================
